---- MODULE Spec2Model ----
(***************************************************************************)
(* chart-packer: the two commands of pkg/cmds.                             *)
(*   crd-less  (crdless.go)  load, removeCRDsFromChart, rename, rewrite    *)
(*                           doc.yaml, save.                               *)
(*   crd-only  (crdonly.go)  load, collectCRDs over the root and over each *)
(*                           direct dependency, pick the extra files of    *)
(*                           the root, assemble a flat chart, save.        *)
(*                                                                         *)
(* A chart tree is a heap of nodes 1..n (node 1 is the root), as the Go    *)
(* code holds it: *chart.Chart pointers whose Files and dependencies are   *)
(* updated in place.  File names are sequences of tokens, so that          *)
(* strings.HasPrefix and name equality are computed, not assumed.  File    *)
(* contents are records holding what the YAML parsers read from the bytes. *)
(*                                                                         *)
(* The Helm SDK calls are modelled by what the SDK does:                   *)
(*   loader.Load       every loaded chart has non-nil Metadata, no nil     *)
(*                     dependency; Raw holds every file of the directory   *)
(*                     (sub-chart files under charts/<name>/), Templates   *)
(*                     the files under templates/, Files the rest;         *)
(*   Chart.CRDObjects  the files of Files under crds/ with a manifest      *)
(*                     extension, followed by the CRDObjects of every      *)
(*                     dependency in declaration order (it recurses);      *)
(*   chartutil.SaveDir writes the chart it is given, or fails.             *)
(* Metadata fields other than Name are copied verbatim by the commands and *)
(* are left out.                                                           *)
(***************************************************************************)
EXTENDS Naturals, Integers, Sequences, FiniteSets, TLC

VARIABLES disk, pc, ch, crdMap, sourceMap, warnings, depIdx, crdFiles,
          extraFiles, newChart, out, exitCode

vars == <<disk, pc, ch, crdMap, sourceMap, warnings, depIdx, crdFiles,
          extraFiles, newChart, out, exitCode>>

\* What the crd-only command alone writes.
onlyVars == <<crdMap, sourceMap, depIdx, crdFiles, extraFiles, newChart>>

\* Largest number of charts in a tree (root included).
MaxNodes == 3
\* Largest number of files in a whole tree.
MaxFiles == 2

Root == 1

\* ------------------------------------------------------------------ names

\* Chart.yaml names, by node.
ChartNames == <<"app", "db", "cache", "queue", "proxy">>

NameOf(n) == <<ChartNames[n]>>

NoName == <<>>

\* strings.HasPrefix
HasPrefix(s, p) == Len(s) >= Len(p) /\ SubSeq(s, 1, Len(p)) = p

CrdsPrefix == <<"crds/">>
TemplatesPrefix == <<"templates/">>
HelperPrefix == <<"templates/", "_">>
DocYaml == <<"doc", ".yaml">>
ReadmeMd == <<"README", ".md">>
ValuesYaml == <<"values", ".yaml">>
ValuesSchemaJson == <<"values", ".schema", ".json">>
HelmIgnore == <<".helmignore">>

\* ------------------------------------------------------------- contents

\* One top-level section of doc.yaml (project, chart, release).
Absent == [state |-> "absent", name |-> NoName, shortName |-> NoName]
Scalar == [state |-> "scalar", name |-> NoName, shortName |-> NoName]
Section(nm) == [state |-> "map", name |-> nm, shortName |-> NoName]

\* What the parsers read from a file's bytes.  ok: the bytes are a YAML
\* mapping.  rev: the chart the bytes were written for (two charts ship
\* different bytes of the same definition).
Bytes(ok, apiVersion, kind, group, namesKind, plural, project, chart) ==
    [ok |-> ok, apiVersion |-> apiVersion, kind |-> kind, group |-> group,
     namesKind |-> namesKind, plural |-> plural,
     project |-> project, chart |-> chart, release |-> Absent, rev |-> ""]

CrdBytes(group, namesKind, plural) ==
    Bytes(TRUE, "apiextensions.k8s.io/v1", "CustomResourceDefinition",
          group, namesKind, plural, Absent, Absent)

Garbage == Bytes(FALSE, "", "", "", "", "", Absent, Absent)
PlainYaml == Bytes(TRUE, "", "", "", "", "", Absent, Absent)

File(name, data) == [name |-> name, data |-> data]

FooA == File(<<"crds/", "a", ".yaml">>, CrdBytes("g1", "Foo", "foos"))
FooB == File(<<"crds/", "b", ".yaml">>, CrdBytes("g1", "Foo", "fooes"))
FooG2 == File(<<"crds/", "c", ".yaml">>, CrdBytes("g2", "Foo", "foos"))
BadCrd == File(<<"crds/", "bad", ".yaml">>, Garbage)
NotCrd == File(<<"crds/", "cm", ".yaml">>,
               Bytes(TRUE, "v1", "ConfigMap", "", "", "", Absent, Absent))
NoApiVersion == File(<<"crds/", "old", ".yaml">>,
               Bytes(TRUE, "", "CustomResourceDefinition", "g1", "Bar", "bars",
                     Absent, Absent))
CrdNotes == File(<<"crds/", "NOTES", ".txt">>, CrdBytes("g1", "Baz", "bazes"))
Readme == File(ReadmeMd, Garbage)
DocGood == File(DocYaml,
               Bytes(TRUE, "", "", "", "", "", Absent, Section(<<"old">>)))
DocScalar == File(DocYaml,
               Bytes(TRUE, "", "", "", "", "", Scalar, Absent))
DocBad == File(DocYaml, Garbage)
Values == File(ValuesYaml, PlainYaml)
Helpers == File(<<"templates/", "_", "helpers", ".tpl">>, Garbage)
Deployment == File(<<"templates/", "deploy", ".yaml">>, PlainYaml)

\* The files a chart directory may hold, per command under study.
LessCatalog == {FooA, FooB, Readme, DocGood, DocBad}
CollectCatalog == {FooA, FooB, FooG2, BadCrd, NotCrd, NoApiVersion, CrdNotes}
ExtraCatalog == {FooA, DocGood, DocBad, DocScalar, Readme, Values, Helpers, Deployment}

\* ---------------------------------------------------------- chart trees

\* Parent vectors of the trees of n charts: node i > 1 hangs under an
\* earlier node; the dependencies of a node are declared in node order.
Shapes(n) ==
    {p \in [1..n -> 0..n] :
        /\ p[Root] = 0
        /\ \A i \in 2..n : p[i] \in 1..(i - 1)}

RECURSIVE Ascending(_)
Ascending(S) ==
    IF S = {} THEN <<>>
    ELSE LET m == CHOOSE x \in S : \A y \in S : x <= y
         IN <<m>> \o Ascending(S \ {m})

DepsOf(p, m) == Ascending({i \in DOMAIN p : p[i] = m})

\* The files put in node m by a placement list, in list order, each stamped
\* with the chart it belongs to.
RECURSIVE Placed(_, _)
Placed(pl, m) ==
    IF pl = <<>> THEN <<>>
    ELSE LET h == pl[1]
             rest == Placed(Tail(pl), m)
         IN IF h[1] = m
            THEN <<File(h[2].name, [h[2].data EXCEPT !.rev = ChartNames[m]])>> \o rest
            ELSE rest

DistinctNames(fs) ==
    \A i, j \in DOMAIN fs : i # j => fs[i].name # fs[j].name

MkDisk(p, pl) ==
    [n |-> Len(p),
     parent |-> p,
     files |-> [m \in DOMAIN p |-> Placed(pl, m)]]

\* Placement lists name the nodes in non-decreasing order: the order of two
\* files of different charts says nothing.
NodeOrdered(pl) == \A i \in 1..(Len(pl) - 1) : pl[i][1] <= pl[i + 1][1]

\* disk is a chart tree of at most MaxNodes charts holding at most MaxFiles
\* files of the catalog, no two files of a chart under one name.
IsDisk(d, catalog) ==
    \E n \in 1..MaxNodes : \E p \in Shapes(n) : \E k \in 0..MaxFiles :
      \E pl \in [1..k -> (1..n) \X catalog] :
        /\ NodeOrdered(pl)
        /\ \A m \in 1..n : DistinctNames(Placed(pl, m))
        /\ d = MkDisk(p, pl)

\* ------------------------------------------------------- the Helm loader

IsTemplate(f) == HasPrefix(f.name, TemplatesPrefix)

\* Chart.Files: what is neither a template nor a values file.
LoadedFiles(fs) ==
    SelectSeq(fs, LAMBDA f : /\ ~IsTemplate(f)
                             /\ f.name # ValuesYaml
                             /\ f.name # ValuesSchemaJson)

\* Chart.Templates
Templates(d, m) == SelectSeq(d.files[m], IsTemplate)

RECURSIVE Prefixed(_, _)
Prefixed(pre, fs) ==
    IF fs = <<>> THEN <<>>
    ELSE <<File(pre \o fs[1].name, fs[1].data)>> \o Prefixed(pre, Tail(fs))

\* Chart.Raw: every file read for the chart, those of its sub-charts under
\* charts/<name>/.
RECURSIVE Raw(_, _)
RECURSIVE RawOfDeps(_, _)
Raw(d, m) == d.files[m] \o RawOfDeps(d, DepsOf(d.parent, m))
RawOfDeps(d, ds) ==
    IF ds = <<>> THEN <<>>
    ELSE Prefixed(<<"charts/", ChartNames[ds[1]], "/">>, Raw(d, ds[1]))
         \o RawOfDeps(d, Tail(ds))

\* loader.Load
Load(d) ==
    [n |-> d.n,
     name |-> [m \in 1..d.n |-> NameOf(m)],
     meta |-> [m \in 1..d.n |-> TRUE],
     files |-> [m \in 1..d.n |-> LoadedFiles(d.files[m])],
     deps |-> [m \in 1..d.n |-> DepsOf(d.parent, m)]]

NoChart == [n |-> 0, name |-> <<>>, meta |-> <<>>, files |-> <<>>, deps |-> <<>>]

EmptyMap == [k \in {} |-> k]

\* ------------------------------------------------------------- crd-less

IsCrdFile(f) == HasPrefix(f.name, CrdsPrefix)

\* A filter that stops after the first file it drops.
RECURSIVE DropFirstCrd(_)
DropFirstCrd(fs) ==
    IF fs = <<>> THEN <<>>
    ELSE IF IsCrdFile(fs[1]) THEN Tail(fs)
    ELSE <<fs[1]>> \o DropFirstCrd(Tail(fs))

\* crdless.go 84-90: the files of a chart without those under crds/.
WithoutCrds(fs) == SelectSeq(fs, LAMBDA f : ~IsCrdFile(f))

\* A dependency that is not recursed into is forgotten.
ForgetDep(newDeps, dep) == newDeps

\* crdless.go 110-112: a dependency that is not recursed into is kept.
KeepDep(newDeps, dep) == Append(newDeps, dep)

\* crdless.go 103: the dependencies removeCRDsFromChart recurses into.
Recursed(c, dep) == c.meta[dep] /\ Len(c.files[dep]) > 0

\* crdless.go 82-115.  ProcessDeps is the loop of 96-114 from dependency i
\* on; the nil test of 98-100 never succeeds on a loaded chart.
RECURSIVE removeCRDsFromChart(_, _)
RECURSIVE ProcessDeps(_, _, _, _)
removeCRDsFromChart(c, m) ==
    ProcessDeps([c EXCEPT !.files[m] = WithoutCrds(@)], m, 1, <<>>)
ProcessDeps(c, m, i, newDeps) ==
    IF i > Len(c.deps[m])
    THEN [c EXCEPT !.deps[m] = newDeps]
    ELSE LET dep == c.deps[m][i]
         IN IF Recursed(c, dep)
            THEN ProcessDeps(removeCRDsFromChart(c, dep), m, i + 1,
                             Append(newDeps, dep))
            ELSE ProcessDeps(c, m, i + 1, KeepDep(newDeps, dep))

\* ------------------------------------------------------- modifyDocYaml

\* unstructured.SetNestedField(content, value, <section>, <field>): the
\* section is created when absent, and must be a mapping when present.
SetNestedName(sec, value) ==
    IF sec.state = "scalar" THEN [err |-> TRUE, sec |-> sec]
    ELSE [err |-> FALSE,
          sec |-> [state |-> "map", name |-> value, shortName |-> sec.shortName]]

SetNestedShortName(sec, value) ==
    IF sec.state = "scalar" THEN [err |-> TRUE, sec |-> sec]
    ELSE [err |-> FALSE,
          sec |-> [state |-> "map", name |-> sec.name, shortName |-> value]]

\* crdonly.go 198-216.  err: the bytes do not parse as a mapping, or a
\* section to write into is not a mapping.  data: the re-serialized content.
modifyDocYaml(data, newChartName) ==
    LET p1 == SetNestedName(data.project, newChartName)
        p2 == SetNestedShortName(p1.sec, newChartName)
        c1 == SetNestedName(data.chart, newChartName)
        r1 == SetNestedName(data.release, newChartName)
    IN IF ~data.ok \/ p1.err \/ p2.err \/ c1.err \/ r1.err
       THEN [err |-> TRUE, data |-> data]
       ELSE [err |-> FALSE,
             data |-> [data EXCEPT !.project = p2.sec, !.chart = c1.sec,
                                   !.release = r1.sec]]

NoKey == [Group |-> "", Kind |-> ""]

Warning(type, file, source, existing, key) ==
    [type |-> type, file |-> file, source |-> source, existing |-> existing,
     key |-> key]

DocWarning == Warning("doc", DocYaml, NoName, NoName, NoKey)

\* strings.HasSuffix
HasSuffix(s, p) == Len(s) >= Len(p) /\ SubSeq(s, Len(s) - Len(p) + 1, Len(s)) = p

\* The first file whose name ends with the given name, whatever directory
\* it is in.
RECURSIVE FirstNamedSuffix(_, _, _)
FirstNamedSuffix(fs, name, i) ==
    IF i > Len(fs) THEN 0
    ELSE IF HasSuffix(fs[i].name, name) THEN i
    ELSE FirstNamedSuffix(fs, name, i + 1)

\* crdless.go 52-53, crdonly.go 85-86: index of the first file of fs with
\* the given name, 0 when there is none.
RECURSIVE FirstNamed(_, _, _)
FirstNamed(fs, name, i) ==
    IF i > Len(fs) THEN 0
    ELSE IF fs[i].name = name THEN i
    ELSE FirstNamed(fs, name, i + 1)

\* crdless.go 52-61: the first doc.yaml of the root's Files is rewritten in
\* place; on failure a warning is printed and the file is left as it was.
RewriteRootDoc(fs, newChartName) ==
    LET i == FirstNamed(fs, DocYaml, 1)
        r == modifyDocYaml(fs[i].data, newChartName)
    IN IF i = 0 THEN [files |-> fs, warned |-> <<>>]
       ELSE IF r.err THEN [files |-> fs, warned |-> <<DocWarning>>]
       ELSE [files |-> [fs EXCEPT ![i].data = r.data], warned |-> <<>>]

CertifiedName(c) == c.name[Root] \o <<"-certified">>

\* -------------------------------------------------- crd-less, the command

InitWith(catalog) ==
    /\ IsDisk(disk, catalog)
    /\ pc = "start"
    /\ ch = NoChart
    /\ crdMap = EmptyMap
    /\ sourceMap = EmptyMap
    /\ warnings = <<>>
    /\ depIdx = 0
    /\ crdFiles = <<>>
    /\ extraFiles = <<>>
    /\ newChart = NoChart
    /\ out = <<>>
    /\ exitCode = -1

\* crdless.go 40-44 / crdonly.go 47-51: loader.Load fails, exit 1.
LoadFail ==
    /\ pc = "start"
    /\ pc' = "exited"
    /\ exitCode' = 1
    /\ UNCHANGED <<disk, ch, onlyVars, warnings, out>>

\* crdless.go 40-45
LoadLess ==
    /\ pc = "start"
    /\ ch' = Load(disk)
    /\ pc' = "less_loaded"
    /\ UNCHANGED <<disk, onlyVars, warnings, out, exitCode>>

\* crdless.go 48
RemoveCRDs ==
    /\ pc = "less_loaded"
    /\ ch' = removeCRDsFromChart(ch, Root)
    /\ pc' = "less_stripped"
    /\ UNCHANGED <<disk, onlyVars, warnings, out, exitCode>>

\* crdless.go 45, 50-61
RenameLess ==
    /\ pc = "less_stripped"
    /\ LET newChartName == CertifiedName(ch)
           r == RewriteRootDoc(ch.files[Root], newChartName)
       IN /\ ch' = [ch EXCEPT !.name[Root] = newChartName, !.files[Root] = r.files]
          /\ warnings' = warnings \o r.warned
    /\ pc' = "less_renamed"
    /\ UNCHANGED <<disk, onlyVars, out, exitCode>>

\* crdless.go 63-68: chartutil.SaveDir writes the tree.
SaveLess ==
    /\ pc = "less_renamed"
    /\ out' = <<ch>>
    /\ pc' = "exited"
    /\ exitCode' = 0
    /\ UNCHANGED <<disk, ch, onlyVars, warnings>>

\* crdless.go 63-66: chartutil.SaveDir fails, exit 1.
SaveLessFail ==
    /\ pc = "less_renamed"
    /\ pc' = "exited"
    /\ exitCode' = 1
    /\ UNCHANGED <<disk, ch, onlyVars, warnings, out>>

InitLess == InitWith(LessCatalog)

NextLess ==
    \/ LoadFail
    \/ LoadLess
    \/ RemoveCRDs
    \/ RenameLess
    \/ SaveLess
    \/ SaveLessFail

SpecLess == InitLess /\ [][NextLess]_vars

\* ------------------------------------------------------------- crd-only

ManifestExtensions == {".yaml", ".yml", ".json"}

\* chart.hasManifestExtension
hasManifestExtension(name) == name[Len(name)] \in ManifestExtensions

\* Chart.CRDObjects of the loaded chart m: its own manifests under crds/,
\* then those of each dependency, in declaration order.
RECURSIVE CRDObjects(_, _)
RECURSIVE CRDObjectsOfDeps(_, _)
CRDObjects(c, m) ==
    SelectSeq(c.files[m],
              LAMBDA f : IsCrdFile(f) /\ hasManifestExtension(f.name))
    \o CRDObjectsOfDeps(c, c.deps[m])
CRDObjectsOfDeps(c, ds) ==
    IF ds = <<>> THEN <<>>
    ELSE CRDObjects(c, ds[1]) \o CRDObjectsOfDeps(c, Tail(ds))

GroupKind(g, k) == [Group |-> g, Kind |-> k]

\* A key built from the group and the plural name.
extractCRDKeyPlural(data) ==
    IF ~data.ok THEN [err |-> TRUE, key |-> NoKey]
    ELSE IF data.apiVersion = "" \/ data.kind # "CustomResourceDefinition"
    THEN [err |-> TRUE, key |-> NoKey]
    ELSE [err |-> FALSE, key |-> GroupKind(data.group, data.plural)]

\* A key built from the kind alone.
extractCRDKeyNoGroup(data) ==
    IF ~data.ok THEN [err |-> TRUE, key |-> NoKey]
    ELSE IF data.apiVersion = "" \/ data.kind # "CustomResourceDefinition"
    THEN [err |-> TRUE, key |-> NoKey]
    ELSE [err |-> FALSE, key |-> GroupKind("", data.namesKind)]

\* crdonly.go 180-195
extractCRDKey(data) ==
    IF ~data.ok THEN [err |-> TRUE, key |-> NoKey]
    ELSE IF data.apiVersion = "" \/ data.kind # "CustomResourceDefinition"
    THEN [err |-> TRUE, key |-> NoKey]
    ELSE [err |-> FALSE, key |-> GroupKind(data.group, data.namesKind)]

\* m[k] = v
MapPut(m, k, v) == [x \in DOMAIN m \cup {k} |-> IF x = k THEN v ELSE m[x]]

Collected(cm, sm, ws) == [crdMap |-> cm, sourceMap |-> sm, warnings |-> ws]

\* A duplicate replaces the entry: last writer wins.
collectOneOverwrite(f, sourceName, st) ==
    LET r == extractCRDKey(f.data)
    IN IF r.err
       THEN Collected(st.crdMap, st.sourceMap,
                      Append(st.warnings,
                             Warning("parse", f.name, sourceName, NoName, NoKey)))
       ELSE Collected(MapPut(st.crdMap, r.key, f),
                      MapPut(st.sourceMap, r.key, sourceName), st.warnings)

\* crdonly.go 161-175: one iteration of the loop of collectCRDs.
collectOne(f, sourceName, st) ==
    LET r == extractCRDKey(f.data)
    IN IF r.err
       THEN Collected(st.crdMap, st.sourceMap,
                      Append(st.warnings,
                             Warning("parse", f.name, sourceName, NoName, NoKey)))
       ELSE IF r.key \in DOMAIN st.sourceMap
       THEN Collected(st.crdMap, st.sourceMap,
                      Append(st.warnings,
                             Warning("dup", f.name, sourceName,
                                     st.sourceMap[r.key], r.key)))
       ELSE Collected(MapPut(st.crdMap, r.key, f),
                      MapPut(st.sourceMap, r.key, sourceName), st.warnings)

\* crdonly.go 159-177
RECURSIVE collectCRDs(_, _, _)
collectCRDs(objs, sourceName, st) ==
    IF objs = <<>> THEN st
    ELSE collectCRDs(Tail(objs), sourceName, collectOne(objs[1], sourceName, st))

\* crdonly.go 77-83
filesToCopy == <<DocYaml, ReadmeMd, ValuesYaml, ValuesSchemaJson, HelmIgnore>>

Picked(fs, ws) == [files |-> fs, warned |-> ws]

\* crdonly.go 85-101: the first file of Raw with the given name, doc.yaml
\* rewritten; a doc.yaml that cannot be rewritten is warned about and not
\* appended.
copyNamed(raw, name, newChartName, acc) ==
    LET i == FirstNamed(raw, name, 1)
        r == modifyDocYaml(raw[i].data, newChartName)
    IN IF i = 0 THEN acc
       ELSE IF name # DocYaml THEN Picked(Append(acc.files, raw[i]), acc.warned)
       ELSE IF r.err THEN Picked(acc.files, Append(acc.warned, DocWarning))
       ELSE Picked(Append(acc.files, File(raw[i].name, r.data)), acc.warned)

\* crdonly.go 84-102
RECURSIVE copyAll(_, _, _, _)
copyAll(raw, names, newChartName, acc) ==
    IF names = <<>> THEN acc
    ELSE copyAll(raw, Tail(names), newChartName,
                 copyNamed(raw, names[1], newChartName, acc))

\* crdonly.go 105-109
helperTemplates(ts) == SelectSeq(ts, LAMBDA f : HasPrefix(f.name, HelperPrefix))

\* Raw of the root of the loaded chart.
RootRaw == Raw(disk, Root)

CertifiedCrdsName(c) == c.name[Root] \o <<"-certified-crds">>

\* The orders in which ranging over a Go map may yield its keys.
KeyOrders(m) ==
    {s \in [1..Cardinality(DOMAIN m) -> DOMAIN m] :
        \A i, j \in DOMAIN s : i # j => s[i] # s[j]}

\* crdonly.go 47-56
LoadOnly ==
    /\ pc = "start"
    /\ ch' = Load(disk)
    /\ pc' = "only_loaded"
    /\ UNCHANGED <<disk, onlyVars, warnings, out, exitCode>>

\* crdonly.go 59
CollectRoot ==
    /\ pc = "only_loaded"
    /\ LET st == collectCRDs(CRDObjects(ch, Root), ch.name[Root],
                             Collected(crdMap, sourceMap, warnings))
       IN /\ crdMap' = st.crdMap
          /\ sourceMap' = st.sourceMap
          /\ warnings' = st.warnings
    /\ depIdx' = 1
    /\ pc' = "only_deps"
    /\ UNCHANGED <<disk, ch, crdFiles, extraFiles, newChart, out, exitCode>>

\* crdonly.go 62-66: one direct dependency of the root.
CollectDep ==
    /\ pc = "only_deps"
    /\ depIdx <= Len(ch.deps[Root])
    /\ LET dep == ch.deps[Root][depIdx]
           st == collectCRDs(CRDObjects(ch, dep), ch.name[dep],
                             Collected(crdMap, sourceMap, warnings))
       IN /\ crdMap' = st.crdMap
          /\ sourceMap' = st.sourceMap
          /\ warnings' = st.warnings
    /\ depIdx' = depIdx + 1
    /\ UNCHANGED <<disk, pc, ch, crdFiles, extraFiles, newChart, out, exitCode>>

\* crdonly.go 68-137: the map turned into a slice, the extra files of the
\* root, and the new chart.
Assemble ==
    /\ pc = "only_deps"
    /\ depIdx > Len(ch.deps[Root])
    /\ \E order \in KeyOrders(crdMap) :
         LET newChartName == CertifiedCrdsName(ch)
             slice == [i \in DOMAIN order |-> crdMap[order[i]]]
             copied == copyAll(RootRaw, filesToCopy, newChartName,
                               Picked(<<>>, <<>>))
             extra == copied.files \o helperTemplates(Templates(disk, Root))
         IN /\ crdFiles' = slice
            /\ extraFiles' = extra
            /\ warnings' = warnings \o copied.warned
            /\ newChart' = [n |-> 1,
                            name |-> <<newChartName>>,
                            meta |-> <<TRUE>>,
                            files |-> <<slice \o extra>>,
                            deps |-> << <<>> >>]
    /\ pc' = "only_assembled"
    /\ UNCHANGED <<disk, ch, crdMap, sourceMap, depIdx, out, exitCode>>

\* crdonly.go 140-146: chartutil.SaveDir writes the new chart.
SaveOnly ==
    /\ pc = "only_assembled"
    /\ out' = <<newChart>>
    /\ pc' = "exited"
    /\ exitCode' = 0
    /\ UNCHANGED <<disk, ch, onlyVars, warnings>>

\* crdonly.go 140-143: chartutil.SaveDir fails, exit 1.
SaveOnlyFail ==
    /\ pc = "only_assembled"
    /\ pc' = "exited"
    /\ exitCode' = 1
    /\ UNCHANGED <<disk, ch, onlyVars, warnings, out>>

InitCollect == InitWith(CollectCatalog)

InitExtra == InitWith(ExtraCatalog)

NextOnly ==
    \/ LoadFail
    \/ LoadOnly
    \/ CollectRoot
    \/ CollectDep
    \/ Assemble
    \/ SaveOnly
    \/ SaveOnlyFail

\* The crd-only command over trees of schema files.
SpecCollect == InitCollect /\ [][NextOnly]_vars

\* The crd-only command over trees of descriptive files.
SpecExtra == InitExtra /\ [][NextOnly]_vars

\* ------------------------------------------------------------------------
\* Properties.  What they say of a tree is read from disk, the tree as it
\* was loaded, and not from the operators above.

Nodes == 1..disk.n

\* The charts of the tree, the chart itself before its dependencies, the
\* dependencies in declaration order.
RECURSIVE PreorderFrom(_)
RECURSIVE PreorderOfAll(_)
PreorderFrom(m) == <<m>> \o PreorderOfAll(DepsOf(disk.parent, m))
PreorderOfAll(ds) ==
    IF ds = <<>> THEN <<>>
    ELSE PreorderFrom(ds[1]) \o PreorderOfAll(Tail(ds))

\* A schema file the walk is handed: under crds/, with a manifest extension.
IsSchemaManifest(f) ==
    /\ f.name[1] = "crds/"
    /\ f.name[Len(f.name)] \in {".yaml", ".yml", ".json"}

RECURSIVE SchemaFilesOf(_)
SchemaFilesOf(ms) ==
    IF ms = <<>> THEN <<>>
    ELSE SelectSeq(disk.files[ms[1]], IsSchemaManifest) \o SchemaFilesOf(Tail(ms))

\* The schema files of the tree in preorder, files of one chart in stored
\* order.
SchemaWalk == SchemaFilesOf(PreorderFrom(Root))

\* The file declares a custom resource definition.
Extracts(f) ==
    /\ f.data.ok
    /\ f.data.apiVersion # ""
    /\ f.data.kind = "CustomResourceDefinition"

DeclaredKey(f) == [Group |-> f.data.group, Kind |-> f.data.namesKind]

\* The chart a file belongs to.
OwnerName(f) == <<f.data.rev>>

\* Position in the walk of the first file that extracts to the key of w[i].
FirstOfKey(w, i) ==
    CHOOSE j \in DOMAIN w :
      /\ Extracts(w[j]) /\ DeclaredKey(w[j]) = DeclaredKey(w[i])
      /\ \A h \in 1..(j - 1) : ~(Extracts(w[h]) /\ DeclaredKey(w[h]) = DeclaredKey(w[i]))

LessStripped == pc \in {"less_stripped", "less_renamed"} \/ (pc = "exited" /\ out # <<>>)

RootCollected == pc \in {"only_deps", "only_assembled"} \/ (pc = "exited" /\ newChart # NoChart)

CollectDone ==
    \/ pc = "only_deps" /\ depIdx > Len(ch.deps[Root])
    \/ pc = "only_assembled"
    \/ pc = "exited" /\ newChart # NoChart

Assembled == pc = "only_assembled" \/ (pc = "exited" /\ newChart # NoChart)

\* C1: after removeCRDsFromChart on the root, no chart of the tree, at any
\* depth, holds a file under crds/.
C1_NoCrdsAnywhere ==
    LessStripped =>
      \A m \in Nodes : \A i \in DOMAIN ch.files[m] :
        ~(ch.files[m][i].name[1] = "crds/")

\* The charts reached from chart m through the dependency lists of c.
RECURSIVE ReachableFrom(_, _)
ReachableFrom(c, m) ==
    {m} \cup UNION {ReachableFrom(c, c.deps[m][i]) : i \in DOMAIN c.deps[m]}

\* C8: removeCRDsFromChart keeps the shape of the tree: the same charts
\* reachable from the root, at every chart the same dependencies in the same
\* order under the same names, and file lists that only shrink.
C8_ShapePreserved ==
    LessStripped =>
      /\ ch.n = disk.n
      /\ Cardinality(ReachableFrom(ch, Root)) = disk.n
      /\ \A m \in Nodes :
           /\ ch.deps[m] = DepsOf(disk.parent, m)
           /\ m # Root => ch.name[m] = <<ChartNames[m]>>
           /\ Len(ch.files[m]) <= Len(disk.files[m])
           /\ \A i \in DOMAIN ch.files[m] :
                \E j \in DOMAIN disk.files[m] :
                  ch.files[m][i].name = disk.files[m][j].name

\* C8 witness: a stripped tree of three charts, one of them not recursed
\* into, with a file removed.
C8_Witness ==
    /\ pc = "less_stripped"
    /\ disk.n = 3
    /\ \E m \in Nodes : m # Root /\ disk.files[m] = <<>>
    /\ \E m \in Nodes : Len(ch.files[m]) < Len(disk.files[m])

\* C9: removeCRDsFromChart applied to its own result changes nothing: the
\* same charts, dependency lists, file lists and bytes.
C9_Idempotent ==
    /\ pc = "less_loaded" =>
         LET once == removeCRDsFromChart(ch, Root)
         IN removeCRDsFromChart(once, Root) = once
    /\ pc = "less_stripped" => removeCRDsFromChart(ch, Root) = ch

\* C9 witness: the first application removed two files of one chart.
C9_Witness ==
    /\ pc = "less_stripped"
    /\ \E m \in Nodes : Len(disk.files[m]) = 2 /\ ch.files[m] = <<>>

DupWarnings == SelectSeq(warnings, LAMBDA x : x.type = "dup")

\* Positions of the walk whose file is discarded as a duplicate.
Discarded(w) == {i \in DOMAIN w : Extracts(w[i]) /\ FirstOfKey(w, i) # i}

\* C3: at the end of collection there is exactly one duplicate warning per
\* discarded schema file, naming the chart of the discarded file and the
\* chart of the retained one.
C3_OneWarningPerDuplicate ==
    CollectDone =>
      LET w == SchemaWalk
      IN /\ Len(DupWarnings) = Cardinality(Discarded(w))
         /\ \A i \in Discarded(w) :
              \E j \in DOMAIN DupWarnings :
                /\ DupWarnings[j].file = w[i].name
                /\ DupWarnings[j].key = DeclaredKey(w[i])
                /\ DupWarnings[j].source = OwnerName(w[i])
                /\ DupWarnings[j].existing = OwnerName(w[FirstOfKey(w, i)])

OnePerKey(fs) ==
    \A i, j \in DOMAIN fs :
      i # j /\ Extracts(fs[i]) /\ Extracts(fs[j])
        => DeclaredKey(fs[i]) # DeclaredKey(fs[j])

MapOnePerKey(m) ==
    \A k1, k2 \in DOMAIN m :
      k1 # k2 => DeclaredKey(m[k1]) # DeclaredKey(m[k2])

RECURSIVE CollectDeps(_, _, _)
CollectDeps(c, ds, st) ==
    IF ds = <<>> THEN st
    ELSE CollectDeps(c, Tail(ds),
                     collectCRDs(CRDObjects(c, ds[1]), c.name[ds[1]], st))

FinalMap(c) ==
    CollectDeps(c, c.deps[Root],
                collectCRDs(CRDObjects(c, Root), c.name[Root],
                            Collected(EmptyMap, EmptyMap, <<>>))).crdMap

WithoutFile(c, m, i) ==
    [c EXCEPT !.files[m] = SubSeq(@, 1, i - 1) \o SubSeq(@, i + 1, Len(@))]

\* C7: a schema file that does not extract gets a warning naming the file
\* and the chart it belongs to, adds nothing to crdMap, and the run ends as
\* the run on the tree without that file does, with the same exit status.
C7_FailureIsLocal ==
    CollectDone =>
      \A m \in Nodes : \A i \in DOMAIN disk.files[m] :
        LET f == disk.files[m][i]
        IN IsSchemaManifest(f) /\ ~Extracts(f) =>
             /\ \E j \in DOMAIN warnings :
                  /\ warnings[j].type = "parse"
                  /\ warnings[j].file = f.name
                  /\ warnings[j].source = OwnerName(f)
             /\ \A k \in DOMAIN crdMap : crdMap[k] # f
             /\ crdMap = FinalMap(WithoutFile(Load(disk), m, i))
             /\ pc = "exited" /\ out # <<>> => exitCode = 0

\* C7, the part the code keeps: the file adds nothing to crdMap, the map is
\* that of the tree without the file, and only a failed save exits 1.
C7_ResultIsLocal ==
    CollectDone =>
      \A m \in Nodes : \A i \in DOMAIN disk.files[m] :
        LET f == disk.files[m][i]
        IN IsSchemaManifest(f) /\ ~Extracts(f) =>
             /\ \E j \in DOMAIN warnings :
                  warnings[j].type = "parse" /\ warnings[j].file = f.name
             /\ \A k \in DOMAIN crdMap : crdMap[k] # f
             /\ crdMap = FinalMap(WithoutFile(Load(disk), m, i))
             /\ pc = "exited" /\ out # <<>> => exitCode = 0

AllowListed == {DocYaml, ReadmeMd, ValuesYaml, ValuesSchemaJson, HelmIgnore}

\* C10: every extra file of the crd-only chart is a file of the root chart
\* itself, allow-listed or a template under templates/_ ; no file of a
\* dependency is among the extra files.
C10_ExtraFilesFromRootOnly ==
    \A i \in DOMAIN extraFiles :
      LET f == extraFiles[i]
      IN /\ \/ f.name \in AllowListed
            \/ (Len(f.name) >= 2 /\ f.name[1] = "templates/" /\ f.name[2] = "_")
         /\ OwnerName(f) = <<ChartNames[Root]>>
         /\ \E j \in DOMAIN disk.files[Root] : disk.files[Root][j].name = f.name

\* C10 witness: a dependency holds a README.md the root does not have, the
\* root holds a helper template, and the extra files are that template.
C10_Witness ==
    /\ Assembled
    /\ Len(extraFiles) = 1
    /\ extraFiles[1].name[1] = "templates/"
    /\ \E m \in Nodes :
         /\ m # Root
         /\ \E j \in DOMAIN disk.files[m] : disk.files[m][j].name = ReadmeMd

LessRenamed == pc = "less_renamed" \/ (pc = "exited" /\ out # <<>>)

\* C4, in crd-less: an unparseable doc.yaml of the root is warned about and
\* stays in the saved tree with its original bytes.
C4_LessKeepsDoc ==
    LessRenamed =>
      \A i \in DOMAIN disk.files[Root] :
        LET f == disk.files[Root][i]
        IN f.name = DocYaml /\ ~f.data.ok =>
             /\ \E j \in DOMAIN warnings : warnings[j].type = "doc"
             /\ \E h \in DOMAIN ch.files[Root] : ch.files[Root][h] = f

\* C4: when the doc.yaml of the root does not parse, a warning is printed
\* and the chart that is saved still holds doc.yaml with its original bytes,
\* in crd-less and among the extra files of crd-only.
C4_DocKeptOnFailure ==
    /\ C4_LessKeepsDoc
    /\ Assembled =>
         \A i \in DOMAIN disk.files[Root] :
           LET f == disk.files[Root][i]
           IN f.name = DocYaml /\ ~f.data.ok =>
                /\ \E j \in DOMAIN warnings : warnings[j].type = "doc"
                /\ \E h \in DOMAIN extraFiles : extraFiles[h] = f
                /\ \E h \in DOMAIN newChart.files[1] : newChart.files[1][h] = f

====
